---- MODULE Spec2Model ----
(***************************************************************************)
(* Payment-plan negotiation and obligation life cycle of the accounting    *)
(* firm / client application.                                              *)
(*                                                                         *)
(* Two stores are modelled, as the repository holds two schemas:           *)
(*   - the live schema (Payment_plan with a status column, messages,       *)
(*     company_relationships) written by the React handlers                *)
(*     handleSubmit, handleAccept, handleReject, handleCounterOffer,       *)
(*     handleConnect and the onboarding modal: specification Spec;         *)
(*   - the trigger schema (Payment_plan with a completed flag and          *)
(*     transactions with triggers) of the migration proud_plain:           *)
(*     specification SpecTx.                                               *)
(* Every await of a handler is one atomic store step; handlers of the two  *)
(* browser tabs interleave between their awaits.                           *)
(***************************************************************************)
EXTENDS Integers, Sequences, FiniteSets, TLC

\* ---------------------------------------------------------------- bounds
\* rows the table Payment_plan may hold
MaxPlans == 2
\* rows the table messages may hold
MaxMessages == 2
\* rows the table Payment_plan of the trigger schema may hold
MaxTriggerPlans == 1

\* resolved transactions the seed writes for the plan of one relationship
MaxHistory == 6

\* days before and after the due date at which a reminder is generated
MaxDays == 10

\* rows of the table messages
MaxChatMessages == 1

\* postgres_changes events on their way to the open chat: updateMessageStatus sends two
MaxPayloads == MaxChatMessages + 1

\* resolved transactions in the table when a suggestion is generated
MaxSuggestionHistory == 2

\* ------------------------------------------------------------- universes
Null == "null"

Liaisons == {"L1"}

Users == {"accountant", "client"}

\* one browser tab per party of the liaison
Tabs == {"tabA", "tabC"}

\* supabase.auth.getUser() of the session of a tab
TabUser(t) == IF t = "tabA" THEN "accountant" ELSE "client"

\* values the editable form fields of a plan take
TotalAmounts == {0, 1200}

NumbersOfPayments == {0, 4}

PaymentPeriods == {30}

\* the PaymentPlan objects a form can hold (types/paymentPlan)
PlanForms == [totalAmount : TotalAmounts, numberOfPayments : NumbersOfPayments, paymentPeriod : PaymentPeriods]

\* the forms with the installment count left as loaded: the proposals of specification Spec
LoadedForms == {f \in PlanForms : f.numberOfPayments = 4}

\* the plan the onboarding modal submits
InitialPlanForm == [totalAmount |-> 1200, numberOfPayments |-> 4, paymentPeriod |-> 30]

VARIABLES
  verification_status,  \* company_relationships.verification_status, "none" before the row exists
  initiated_by,         \* company_relationships.initiated_by
  Payment_plan,         \* live table Payment_plan: sequence of rows, id = index
  messages,             \* table messages: sequence of rows, id = index
  transactions,         \* live table transactions: set of rows
  currentUserId,        \* ChatPage state currentUserId of each tab
  status,               \* PaymentPlanMessage state status, per tab and message
  handler,              \* the handler in flight in each tab
  race,                 \* history: how each of two overlapping handleAccept runs ended, and with which plan
  Payment_plan_trg,     \* trigger schema, table Payment_plan: sequence of rows, id = index
  transactions_trg,     \* trigger schema, table transactions: sequence of rows, id = index
  lastStatement,        \* history: the last SQL statement run on the trigger schema and how it ended
  session,              \* trigger schema: the open transaction of each database session
  crs_score,            \* liaisons.crs_score of the relationship
  transaction_history,  \* live table transactions: the resolved rows the seed wrote, in due_date order
  pending_transaction,  \* live table transactions: the pending row, due after the resolved ones
  metrics,              \* CRSAnalysisPage state metrics
  newMessage,           \* accounting ChatPage state newMessage: the reminder generateAIReminder wrote
  card,                 \* PaymentPlanMessage: the prop newPlan, the state editedPlan and isEditing, and
                        \* the paymentHistory the last generateSuggestedPlan read
  chat_messages,        \* table messages with the columns the chat pages read: sequence of rows, id = index
  viewMessages,         \* ChatPage state messages of the open chat
  chatUser,             \* the party whose ChatPage has the relationship selected, Null when none has
  fetchData,            \* the fetchMessages query in flight and the rows it selected
  messageSubscription,  \* state of the realtime channel of the open chat
  payloads              \* postgres_changes events on their way to the open chat

liveVars == <<verification_status, initiated_by, Payment_plan, messages, transactions, currentUserId, status, handler, race>>

trgVars == <<Payment_plan_trg, transactions_trg, lastStatement, session>>

crsVars == <<crs_score, transaction_history, pending_transaction, metrics, newMessage>>

cardVars == <<card>>

chatVars == <<chat_messages, viewMessages, chatUser, fetchData, messageSubscription, payloads>>

vars == <<verification_status, initiated_by, Payment_plan, messages, transactions, currentUserId, status, handler, race, Payment_plan_trg, transactions_trg, lastStatement, session,
         crs_score, transaction_history, pending_transaction, metrics, newMessage, card,
         chat_messages, viewMessages, chatUser, fetchData, messageSubscription, payloads>>

\* ------------------------------------------------------------ store rules

\* ids of the active plans of a liaison in a table value
ActivePlans(rows, l) == {i \in DOMAIN rows : rows[i].liaison_id = l /\ rows[i].status = "active"}

\* the unique partial index: no table value with two active plans of a liaison
idx_active_payment_plan_none(rows) == TRUE

\* CREATE UNIQUE INDEX idx_active_payment_plan ON Payment_plan (liaison_id) WHERE status = 'active'
idx_active_payment_plan(rows) == \A l \in Liaisons : Cardinality(ActivePlans(rows, l)) <= 1

\* CHECK (status IN ('pending','active','rejected','completed','cancelled'))
Payment_plan_status_check(rows) == \A i \in DOMAIN rows : rows[i].status \in {"pending", "active", "rejected", "completed", "cancelled"}

\* a store that checks the status values only
PlanWriteOk_statusOnly(rows) == Payment_plan_status_check(rows)

\* a write of Payment_plan is committed only when every constraint holds
PlanWriteOk(rows) == idx_active_payment_plan(rows) /\ Payment_plan_status_check(rows)

\* ------------------------------------------------------------ handlers

\* the locals of the handler a tab runs: op and pc say where it stands, messageId is the
\* request it acts on, existingPlan and newPaymentPlan are handleAccept's locals, cancelled
\* records that its update turned an active plan into a cancelled one
IdleHandler == [op |-> "none", pc |-> "idle", messageId |-> 0, existingPlan |-> 0, newPaymentPlan |-> 0, cancelled |-> FALSE]

Idle(t) == handler[t].pc = "idle"

\* accepts between their lookup and their insert
AcceptsBeforeInsert == {t \in Tabs : handler[t].op = "accept" /\ handler[t].pc \in {"cancel", "insert"}}

\* the table messages has room for one more row
RoomForMessage == Len(messages) < MaxMessages

\* the table Payment_plan has room for one more row
RoomForPlan == Len(Payment_plan) < MaxPlans

\* the outcomes of a store call a handler awaits: any call may fail (store unreachable),
\* and a call that would outgrow the modelled table always does
StoreFails(room) == IF room THEN BOOLEAN ELSE {TRUE}

\* const isRecipient = currentUserId !== senderId
isRecipient(t, m) == currentUserId[t] # messages[m].sender_id

\* {status === 'pending' && isRecipient && (...)}: the action buttons are rendered
ActionsShown(t, m) ==
  /\ m \in DOMAIN messages
  /\ messages[m].type = "payment_plan_request"
  /\ status[t][m] = "pending"
  /\ isRecipient(t, m)

\* useState<TransactionMetrics | null>(null): the metrics before fetchCRSData has set them
NoMetrics == [totalTransactions |-> 0, onTimePayments |-> 0, currentStreak |-> 0, riskLevel |-> Null, predictedScore |-> 0]

\* no pending row in transactions
NoTransaction == [liaison |-> Null, status |-> Null, onTime |-> FALSE, payment_streak |-> 0, risk_level |-> Null]

\* useState(''): the message box before a reminder is generated
NoMessage == [level |-> Null, daysUntilDue |-> 0, text |-> <<>>, transaction |-> NoTransaction]

\* no PaymentPlan: the prop of a card that is not mounted
NoPlan == [totalAmount |-> 0, numberOfPayments |-> 0, paymentPeriod |-> 0]

\* the editedPlan a card holds for a plan: the plan and its paymentAmount, held as the
\* fraction <<totalAmount, numberOfPayments>>
Draft(plan) == [totalAmount |-> plan.totalAmount, numberOfPayments |-> plan.numberOfPayments, paymentPeriod |-> plan.paymentPeriod, paymentAmount |-> <<plan.totalAmount, plan.numberOfPayments>>]

\* no PaymentPlanMessage is mounted
NoCard == [newPlan |-> NoPlan, editedPlan |-> Draft(NoPlan), isEditing |-> FALSE, paymentHistory |-> <<>>]

\* no fetchMessages query is in flight
NoFetch == [state |-> "idle", data |-> <<>>]

\* liaisons.crs_score ... DEFAULT 85
DefaultCrsScore == 85

\* the database sessions that run statements at the same time
Sessions == {"s1", "s2"}

\* a session with no open transaction; an open one holds the row id it updates, the
\* status it sets and the v_payment_num its trigger has selected
IdleSession == [pc |-> "idle", id |-> 0, new |-> Null, v_payment_num |-> 0]

\* no statement has run on the trigger schema
NoStatement == [op |-> "none", plan |-> 0, raised |-> FALSE, wasCompleted |-> FALSE, hadOutstanding |-> FALSE]

\* handleAccept runs overlap, and not two of them alone
VoidRace == [t \in Tabs |-> [how |-> "void", plan |-> 0]]

\* no two handleAccept runs overlap
NoRace == [t \in Tabs |-> [how |-> "no", plan |-> 0]]

\* the history when tab t's run has looked up the active plan: alone it starts afresh; with
\* the other tab's run still before its insert the two runs overlap, and the overlap is
\* void when that run already overlapped with something else
RaceAtLookup(t) ==
  IF AcceptsBeforeInsert \ {t} = {}
  THEN NoRace
  ELSE IF \A u \in Tabs : race[u].how = "no"
       THEN [u \in Tabs |-> [how |-> "running", plan |-> 0]]
       ELSE VoidRace

\* the history when handleConnect has written Payment_plan: a run between its lookup and
\* its insert no longer overlaps with another run alone
RaceAtConnect == IF AcceptsBeforeInsert # {} THEN VoidRace ELSE race

Init ==
  /\ verification_status = "none"
  /\ initiated_by = Null
  /\ Payment_plan = <<>>
  /\ messages = <<>>
  /\ transactions = {}
  /\ currentUserId = [t \in Tabs |-> Null]
  /\ status = [t \in Tabs |-> [m \in 1..MaxMessages |-> "pending"]]
  /\ handler = [t \in Tabs |-> IdleHandler]
  /\ race = NoRace
  /\ Payment_plan_trg = <<>>
  /\ transactions_trg = <<>>
  /\ lastStatement = NoStatement
  /\ session = [s \in Sessions |-> IdleSession]
  /\ crs_score = DefaultCrsScore
  /\ transaction_history = <<>>
  /\ pending_transaction = NoTransaction
  /\ metrics = NoMetrics
  /\ newMessage = NoMessage
  /\ card = NoCard
  /\ chat_messages = <<>>
  /\ viewMessages = <<>>
  /\ chatUser = Null
  /\ fetchData = NoFetch
  /\ messageSubscription = "closed"
  /\ payloads = <<>>

\* ChatPage: fetchCurrentUser sets currentUserId once getUser() resolves
fetchCurrentUser(t) ==
  /\ currentUserId[t] = Null
  /\ currentUserId' = [currentUserId EXCEPT ![t] = TabUser(t)]
  /\ UNCHANGED <<verification_status, initiated_by, Payment_plan, messages, transactions, status, handler, race>>

\* a (re)mount of the chat view: every useState starts from its initial value
MountChat(t) ==
  /\ currentUserId' = [currentUserId EXCEPT ![t] = Null]
  /\ status' = [status EXCEPT ![t] = [m \in 1..MaxMessages |-> "pending"]]

\* the user reloads the page of a tab that runs no handler
Reload(t) ==
  /\ Idle(t)
  /\ MountChat(t)
  /\ UNCHANGED <<verification_status, initiated_by, Payment_plan, messages, transactions, handler, race>>

\* the row AddClientModal inserts for the initial plan
InitialPlanRow == [liaison_id |-> "L1", status |-> "pending", total_due |-> InitialPlanForm.totalAmount, payment_rate |-> InitialPlanForm.paymentPeriod, num_payment |-> InitialPlanForm.numberOfPayments]

\* AddClientModal.handleSubmit: relationship (pending), liaison, initial plan (pending);
\* the last insert may fail and leave the liaison without a plan
AddClientSubmit(t) ==
  /\ Idle(t)
  /\ verification_status = "none"
  /\ RoomForPlan
  /\ verification_status' = "pending"
  /\ initiated_by' = TabUser(t)
  /\ \E fail \in BOOLEAN :
       Payment_plan' = IF fail THEN Payment_plan ELSE Append(Payment_plan, InitialPlanRow)
  /\ UNCHANGED <<messages, transactions, currentUserId, status, handler, race>>

\* the update without its filter on status: every plan of the liaison becomes active
ActivatePending_anyStatus(rows, l) == [i \in DOMAIN rows |-> IF rows[i].liaison_id = l THEN [rows[i] EXCEPT !.status = "active"] ELSE rows[i]]

\* update({status: 'active'}).eq('liaison_id', liaison.id).eq('status', 'pending')
ActivatePending(rows, l) == [i \in DOMAIN rows |-> IF rows[i].liaison_id = l /\ rows[i].status = "pending" THEN [rows[i] EXCEPT !.status = "active"] ELSE rows[i]]

\* ConnectButton.handleConnect, first store write: the liaison's pending plans become active
handleConnect(t) ==
  /\ Idle(t)
  /\ verification_status = "pending"
  /\ TabUser(t) # initiated_by
  /\ \E fail \in BOOLEAN :
       LET rows == ActivatePending(Payment_plan, "L1")
       IN IF fail \/ ~PlanWriteOk(rows)
          THEN UNCHANGED <<Payment_plan, handler, race>>
          ELSE /\ Payment_plan' = rows
               /\ handler' = [handler EXCEPT ![t] = [IdleHandler EXCEPT !.op = "connect", !.pc = "relationship"]]
               /\ race' = RaceAtConnect
  /\ UNCHANGED <<verification_status, initiated_by, messages, transactions, currentUserId, status>>

\* ConnectButton.handleConnect, second store write: the relationship becomes verified
handleConnectRelationship(t) ==
  /\ handler[t].op = "connect"
  /\ handler[t].pc = "relationship"
  /\ \E fail \in BOOLEAN :
       verification_status' = IF fail THEN verification_status ELSE "verified"
  /\ handler' = [handler EXCEPT ![t] = IdleHandler]
  /\ UNCHANGED <<initiated_by, Payment_plan, messages, transactions, currentUserId, status, race>>

\* the row a payment_plan_request message stores (content = JSON of type and newPlan)
RequestMessage(u, plan) == [liaison_id |-> "L1", sender_id |-> u, type |-> "payment_plan_request", newPlan |-> plan]

\* the row of a plain text message (confirmation or rejection)
TextMessage(u, kind) == [liaison_id |-> "L1", sender_id |-> u, type |-> kind, newPlan |-> Null]

\* if (newPlan.totalAmount <= 0) { error; return }: the only validation of a proposal
ProposalValid(plan) == ~(plan.totalAmount <= 0)

\* PaymentRenegotiationPage.handleSubmit: the client sends a renegotiation request and is
\* taken to the chat page, which mounts anew
handleSubmit(t, newPlan) ==
  /\ Idle(t)
  /\ TabUser(t) = "client"
  /\ verification_status # "none"
  /\ RoomForMessage
  /\ \E fail \in BOOLEAN :
       IF ~ProposalValid(newPlan) \/ fail
       THEN UNCHANGED <<messages, currentUserId, status>>
       ELSE /\ messages' = Append(messages, RequestMessage(TabUser(t), newPlan))
            /\ MountChat(t)
  /\ UNCHANGED <<verification_status, initiated_by, Payment_plan, transactions, handler, race>>

\* the history of a run that overlapped with the other tab's run: how it fared, with which plan
RaceRecord(t, how, plan) == IF race[t].how \in {"running", "inserted"} THEN [race EXCEPT ![t] = [how |-> how, plan |-> plan]] ELSE race

\* the end of a handleAccept run (catch / finally, or its last line): the handler is gone
AcceptEnds(t, how) ==
  /\ handler' = [handler EXCEPT ![t] = IdleHandler]
  /\ race' = RaceRecord(t, how, handler[t].newPaymentPlan)

\* PaymentPlanMessage.handleAccept up to the lookup of the liaison's active plan
handleAccept(t, m) ==
  /\ Idle(t)
  /\ ActionsShown(t, m)
  /\ \E fail \in BOOLEAN :
       LET started == [IdleHandler EXCEPT !.op = "accept", !.messageId = m]
           active == ActivePlans(Payment_plan, messages[m].liaison_id)
       IN IF fail \/ Cardinality(active) > 1
          THEN UNCHANGED <<handler, race>>
          ELSE /\ handler' = [handler EXCEPT ![t] =
                    IF active = {}
                    THEN [started EXCEPT !.pc = "insert"]
                    ELSE [started EXCEPT !.pc = "cancel", !.existingPlan = CHOOSE i \in active : TRUE]]
               /\ race' = RaceAtLookup(t)
  /\ UNCHANGED <<verification_status, initiated_by, Payment_plan, messages, transactions, currentUserId, status>>

\* handleAccept: update({status: 'cancelled'}).eq('id', existingPlan.id)
handleAcceptCancel(t) ==
  /\ handler[t].op = "accept"
  /\ handler[t].pc = "cancel"
  /\ \E fail \in BOOLEAN :
       LET e == handler[t].existingPlan
       IN IF fail
          THEN /\ AcceptEnds(t, "storeError")
               /\ UNCHANGED Payment_plan
          ELSE /\ Payment_plan' = [Payment_plan EXCEPT ![e].status = "cancelled"]
               /\ handler' = [handler EXCEPT ![t].pc = "insert", ![t].cancelled = (Payment_plan[e].status = "active")]
               /\ UNCHANGED race
  /\ UNCHANGED <<verification_status, initiated_by, messages, transactions, currentUserId, status>>

\* the row handleAccept inserts: the proposal of the message, already active
AcceptedPlanRow(m) == [liaison_id |-> messages[m].liaison_id, status |-> "active", total_due |-> messages[m].newPlan.totalAmount, payment_rate |-> messages[m].newPlan.paymentPeriod, num_payment |-> messages[m].newPlan.numberOfPayments]

\* handleAccept: insert of the new plan
handleAcceptInsert(t) ==
  /\ handler[t].op = "accept"
  /\ handler[t].pc = "insert"
  /\ \E fail \in StoreFails(RoomForPlan) :
       LET rows == Append(Payment_plan, AcceptedPlanRow(handler[t].messageId))
       IN IF fail
          THEN /\ AcceptEnds(t, "storeError")
               /\ UNCHANGED Payment_plan
          ELSE IF ~PlanWriteOk(rows)
               THEN /\ AcceptEnds(t, "uniqueViolation")
                    /\ UNCHANGED Payment_plan
               ELSE /\ Payment_plan' = rows
                    /\ handler' = [handler EXCEPT ![t].pc = "message", ![t].newPaymentPlan = Len(rows)]
                    /\ race' = RaceRecord(t, "inserted", Len(rows))
  /\ UNCHANGED <<verification_status, initiated_by, messages, transactions, currentUserId, status>>

\* handleAccept: insert of the confirmation message, then setStatus('accepted')
handleAcceptMessage(t) ==
  /\ handler[t].op = "accept"
  /\ handler[t].pc = "message"
  /\ \E fail \in StoreFails(RoomForMessage) :
       IF fail
       THEN /\ AcceptEnds(t, "storeError")
            /\ UNCHANGED <<messages, status>>
       ELSE /\ messages' = Append(messages, TextMessage(TabUser(t), "confirmation"))
            /\ status' = [status EXCEPT ![t][handler[t].messageId] = "accepted"]
            /\ AcceptEnds(t, "ok")
  /\ UNCHANGED <<verification_status, initiated_by, Payment_plan, transactions, currentUserId>>

\* a reject that also stores the proposal as a plan in status rejected
handleReject_storesPlan(t, m) ==
  /\ Idle(t)
  /\ ActionsShown(t, m)
  /\ RoomForMessage
  /\ \E fail \in BOOLEAN :
       IF fail
       THEN UNCHANGED <<messages, status, Payment_plan>>
       ELSE /\ messages' = Append(messages, TextMessage(TabUser(t), "rejection"))
            /\ status' = [status EXCEPT ![t][m] = "rejected"]
            /\ Payment_plan' = Append(Payment_plan, [liaison_id |-> messages[m].liaison_id, status |-> "rejected", total_due |-> messages[m].newPlan.totalAmount, payment_rate |-> messages[m].newPlan.paymentPeriod, num_payment |-> messages[m].newPlan.numberOfPayments])
  /\ UNCHANGED <<verification_status, initiated_by, transactions, currentUserId, handler, race>>

\* PaymentPlanMessage.handleReject: a rejection message, then setStatus('rejected')
handleReject(t, m) ==
  /\ Idle(t)
  /\ ActionsShown(t, m)
  /\ RoomForMessage
  /\ \E fail \in BOOLEAN :
       IF fail
       THEN UNCHANGED <<messages, status>>
       ELSE /\ messages' = Append(messages, TextMessage(TabUser(t), "rejection"))
            /\ status' = [status EXCEPT ![t][m] = "rejected"]
  /\ UNCHANGED <<verification_status, initiated_by, Payment_plan, transactions, currentUserId, handler, race>>

\* PaymentPlanMessage.handleCounterOffer: the edited plan goes out as a new request
handleCounterOffer(t, m, editedPlan) ==
  /\ Idle(t)
  /\ ActionsShown(t, m)
  /\ RoomForMessage
  /\ \E fail \in BOOLEAN :
       IF ~ProposalValid(editedPlan) \/ fail
       THEN UNCHANGED messages
       ELSE messages' = Append(messages, RequestMessage(TabUser(t), editedPlan))
  /\ UNCHANGED <<verification_status, initiated_by, Payment_plan, transactions, currentUserId, status, handler, race>>

Next ==
  \/ \E t \in Tabs : fetchCurrentUser(t) /\ UNCHANGED <<trgVars, crsVars, cardVars, chatVars>>
  \/ \E t \in Tabs : Reload(t) /\ UNCHANGED <<trgVars, crsVars, cardVars, chatVars>>
  \/ \E t \in Tabs : AddClientSubmit(t) /\ UNCHANGED <<trgVars, crsVars, cardVars, chatVars>>
  \/ \E t \in Tabs : handleConnect(t) /\ UNCHANGED <<trgVars, crsVars, cardVars, chatVars>>
  \/ \E t \in Tabs : handleConnectRelationship(t) /\ UNCHANGED <<trgVars, crsVars, cardVars, chatVars>>
  \/ \E t \in Tabs, newPlan \in LoadedForms : handleSubmit(t, newPlan) /\ UNCHANGED <<trgVars, crsVars, cardVars, chatVars>>
  \/ \E t \in Tabs, m \in 1..MaxMessages : handleAccept(t, m) /\ UNCHANGED <<trgVars, crsVars, cardVars, chatVars>>
  \/ \E t \in Tabs : handleAcceptCancel(t) /\ UNCHANGED <<trgVars, crsVars, cardVars, chatVars>>
  \/ \E t \in Tabs : handleAcceptInsert(t) /\ UNCHANGED <<trgVars, crsVars, cardVars, chatVars>>
  \/ \E t \in Tabs : handleAcceptMessage(t) /\ UNCHANGED <<trgVars, crsVars, cardVars, chatVars>>
  \/ \E t \in Tabs, m \in 1..MaxMessages : handleReject(t, m) /\ UNCHANGED <<trgVars, crsVars, cardVars, chatVars>>
  \/ \E t \in Tabs, m \in 1..MaxMessages, editedPlan \in LoadedForms : handleCounterOffer(t, m, editedPlan) /\ UNCHANGED <<trgVars, crsVars, cardVars, chatVars>>

\* the negotiation over the live schema
Spec == Init /\ [][Next]_vars

\* the proposal handlers alone, over every form value
NextProposals ==
  \/ \E t \in Tabs : fetchCurrentUser(t) /\ UNCHANGED <<trgVars, crsVars, cardVars, chatVars>>
  \/ \E t \in Tabs : Reload(t) /\ UNCHANGED <<trgVars, crsVars, cardVars, chatVars>>
  \/ \E t \in Tabs : AddClientSubmit(t) /\ UNCHANGED <<trgVars, crsVars, cardVars, chatVars>>
  \/ \E t \in Tabs, newPlan \in PlanForms : handleSubmit(t, newPlan) /\ UNCHANGED <<trgVars, crsVars, cardVars, chatVars>>
  \/ \E t \in Tabs, m \in 1..MaxMessages : handleReject(t, m) /\ UNCHANGED <<trgVars, crsVars, cardVars, chatVars>>
  \/ \E t \in Tabs, m \in 1..MaxMessages, editedPlan \in PlanForms : handleCounterOffer(t, m, editedPlan) /\ UNCHANGED <<trgVars, crsVars, cardVars, chatVars>>

SpecProposals == Init /\ [][NextProposals]_vars

\* ------------------------------------------------------- trigger schema

\* values of the columns of a plan: total_due, payment_rate (days), num_payment
TotalsDue == {1200}

PaymentRates == {30}

NumPayments == {1, 2}

\* ids the rows of transactions take: a plan never holds more rows than num_payment
TransactionIds == 1..(MaxTriggerPlans * (CHOOSE n \in NumPayments : \A k \in NumPayments : k <= n))

\* due dates (in days) given to a first obligation
DueDates == {30, 60}

\* CHECK (status IN ('PENDING', 'PAID', 'OVERDUE', 'RENEGO'))
TransactionStatuses == {"PENDING", "PAID", "OVERDUE", "RENEGO"}

\* ids of the transactions of plan p
TransactionsOf(txs, p) == {i \in DOMAIN txs : txs[i].payment_plan = p}

\* SELECT COALESCE(MAX(payment_num), 0) FROM transactions WHERE payment_plan = p
MaxPaymentNum(txs, p) == IF TransactionsOf(txs, p) = {} THEN 0 ELSE CHOOSE n \in {txs[i].payment_num : i \in TransactionsOf(txs, p)} : \A i \in TransactionsOf(txs, p) : txs[i].payment_num <= n

\* EXISTS (SELECT 1 FROM transactions WHERE payment_plan = p AND status IN ('PENDING', 'OVERDUE'))
HasActiveTransactions(txs, p) == \E i \in TransactionsOf(txs, p) : txs[i].status \in {"PENDING", "OVERDUE"}

\* the guard that looks for PENDING transactions only
fn_validate_payment_plan_completion_pendingOnly(txs, OLD_row, NEW_row, p) == NEW_row.completed /\ ~OLD_row.completed /\ \E i \in TransactionsOf(txs, p) : txs[i].status = "PENDING"

\* fn_validate_payment_plan_completion: TRUE when the trigger raises the exception
fn_validate_payment_plan_completion(txs, OLD_row, NEW_row, p) == NEW_row.completed /\ ~OLD_row.completed /\ HasActiveTransactions(txs, p)

\* UPDATE Payment_plan SET completed = true WHERE id = p, with trg_payment_plan_completion
\* (BEFORE UPDATE OF completed): the new table value, or the exception
SetCompleted(plans, txs, p) ==
  LET NEW_row == [plans[p] EXCEPT !.completed = TRUE]
  IN IF fn_validate_payment_plan_completion(txs, plans[p], NEW_row, p)
     THEN [raised |-> TRUE, plans |-> plans, txs |-> txs]
     ELSE [raised |-> FALSE, plans |-> [plans EXCEPT ![p] = NEW_row], txs |-> txs]

\* fn_update_payment_plan_transaction (AFTER INSERT ON transactions): the plan's
\* next_transaction_id becomes the id of the inserted row
fn_update_payment_plan_transaction(plans, p, id) == [plans EXCEPT ![p].next_transaction_id = id]

\* a table without the unique constraint
unique_payment_num_per_plan_none(txs) == TRUE

\* CONSTRAINT unique_payment_num_per_plan UNIQUE (payment_plan, payment_num)
unique_payment_num_per_plan(txs) == \A i, j \in DOMAIN txs : (txs[i].payment_plan = txs[j].payment_plan /\ txs[i].payment_num = txs[j].payment_num) => i = j

\* the guard that lets the plan grow to one obligation more than num_payment
MorePaymentsDue_inclusive(v_payment_num, v_payment_plan) == v_payment_num <= v_payment_plan.num_payment

\* IF v_payment_num < v_payment_plan.num_payment: the total of payments is not reached
MorePaymentsDue(v_payment_num, v_payment_plan) == v_payment_num < v_payment_plan.num_payment

\* the body of fn_generate_next_transaction, row i already holding NEW, with the payment
\* number v_payment_num it has selected; an insert the unique constraint refuses raises
GenerateNext(plans, txs, i, v_payment_num) ==
  LET NEW_row == txs[i]
      p == NEW_row.payment_plan
      v_payment_plan == plans[p]
      next == [payment_plan |-> p, amount |-> v_payment_plan.total_due \div v_payment_plan.num_payment, due_date |-> NEW_row.due_date + v_payment_plan.payment_rate, status |-> "PENDING", payment_num |-> v_payment_num + 1]
      v_next_transaction_id == Len(txs) + 1
  IN IF NEW_row.status = "PAID"
     THEN IF MorePaymentsDue(v_payment_num, v_payment_plan)
          THEN IF unique_payment_num_per_plan(Append(txs, next))
               THEN [raised |-> FALSE, plans |-> [fn_update_payment_plan_transaction(plans, p, v_next_transaction_id) EXCEPT ![p].next_transaction_id = v_next_transaction_id], txs |-> Append(txs, next)]
               ELSE [raised |-> TRUE, plans |-> plans, txs |-> txs]
          ELSE [raised |-> FALSE, plans |-> plans, txs |-> txs]
     ELSE IF NEW_row.status = "RENEGO"
          THEN SetCompleted(plans, txs, p)
          ELSE [raised |-> FALSE, plans |-> plans, txs |-> txs]

\* fn_generate_next_transaction (AFTER UPDATE OF status): it decides by
\* SELECT COALESCE(MAX(payment_num), 0) over the plan of the row
fn_generate_next_transaction(plans, txs, i) == GenerateNext(plans, txs, i, MaxPaymentNum(txs, txs[i].payment_plan))

\* the history entry of a statement on plan p
Statement(op, p, raised) == [op |-> op, plan |-> p, raised |-> raised, wasCompleted |-> Payment_plan_trg[p].completed, hadOutstanding |-> HasActiveTransactions(transactions_trg, p)]

\* INSERT INTO Payment_plan (total_due, payment_rate, liaison_id, num_payment)
InsertPaymentPlan(total_due, payment_rate, num_payment) ==
  /\ Len(Payment_plan_trg) < MaxTriggerPlans
  /\ total_due > 0 /\ payment_rate > 0 /\ num_payment > 0
  /\ Payment_plan_trg' = Append(Payment_plan_trg, [total_due |-> total_due, payment_rate |-> payment_rate, num_payment |-> num_payment, next_transaction_id |-> 0, completed |-> FALSE])
  /\ lastStatement' = [NoStatement EXCEPT !.op = "insertPlan", !.plan = Len(Payment_plan_trg) + 1]
  /\ UNCHANGED transactions_trg
  /\ UNCHANGED <<liveVars, crsVars, cardVars, chatVars>>

\* INSERT INTO transactions of the first obligation of plan p, with
\* trg_payment_plan_transaction; unique_payment_num_per_plan refuses a second one
InsertTransaction(p, due_date) ==
  /\ p \in DOMAIN Payment_plan_trg
  /\ transactions_trg' = Append(transactions_trg, [payment_plan |-> p, amount |-> Payment_plan_trg[p].total_due \div Payment_plan_trg[p].num_payment, due_date |-> due_date, status |-> "PENDING", payment_num |-> 1])
  /\ unique_payment_num_per_plan(transactions_trg')
  /\ Payment_plan_trg' = fn_update_payment_plan_transaction(Payment_plan_trg, p, Len(transactions_trg) + 1)
  /\ lastStatement' = Statement("insertTransaction", p, FALSE)
  /\ UNCHANGED <<liveVars, crsVars, cardVars, chatVars>>

\* UPDATE transactions SET status = new WHERE id = i, with trg_transaction_status_change
\* (WHEN OLD.status IS DISTINCT FROM NEW.status); an exception undoes the whole statement
UpdateTransactionStatus(i, new) ==
  /\ i \in DOMAIN transactions_trg
  /\ LET OLD_row == transactions_trg[i]
         txs == [transactions_trg EXCEPT ![i].status = new]
         r == IF OLD_row.status # new
              THEN fn_generate_next_transaction(Payment_plan_trg, txs, i)
              ELSE [raised |-> FALSE, plans |-> Payment_plan_trg, txs |-> txs]
     IN /\ lastStatement' = Statement(new, OLD_row.payment_plan, r.raised)
        /\ IF r.raised
           THEN UNCHANGED <<Payment_plan_trg, transactions_trg>>
           ELSE /\ Payment_plan_trg' = r.plans
                /\ transactions_trg' = r.txs
  /\ UNCHANGED <<liveVars, crsVars, cardVars, chatVars>>

\* UPDATE Payment_plan SET completed = true WHERE id = p
CompletePlan(p) ==
  /\ p \in DOMAIN Payment_plan_trg
  /\ LET r == SetCompleted(Payment_plan_trg, transactions_trg, p)
     IN /\ lastStatement' = Statement("complete", p, r.raised)
        /\ Payment_plan_trg' = r.plans
  /\ UNCHANGED transactions_trg
  /\ UNCHANGED <<liveVars, crsVars, cardVars, chatVars>>

NextTx ==
  \/ \E total_due \in TotalsDue, payment_rate \in PaymentRates, num_payment \in NumPayments : InsertPaymentPlan(total_due, payment_rate, num_payment) /\ UNCHANGED session
  \/ \E p \in 1..MaxTriggerPlans, due_date \in DueDates : InsertTransaction(p, due_date) /\ UNCHANGED session
  \/ \E i \in TransactionIds, new \in {"PAID", "OVERDUE", "RENEGO"} : UpdateTransactionStatus(i, new) /\ UNCHANGED session
  \/ \E p \in 1..MaxTriggerPlans : CompletePlan(p) /\ UNCHANGED session

\* the statements on the trigger schema
SpecTx == Init /\ [][NextTx]_vars

\* ----------------------------------------- trigger schema, concurrent sessions

\* installment counts of the plans concurrent payments are run on
RaceNumPayments == {3}

\* the plans concurrent payments are run on: sessions on different plans share no row,
\* no index entry and no lock, so one plan shows every interleaving
RacePlans == {1}

\* ids the rows of transactions take when plans have RaceNumPayments installments
RaceTransactionIds == 1..(Cardinality(RacePlans) * (CHOOSE n \in RaceNumPayments : \A k \in RaceNumPayments : k <= n))

\* the plan of the row a session updates
SessionPlan(s) == transactions_trg[session[s].id].payment_plan

\* another session has inserted a transaction of plan p and not yet committed: it holds
\* the lock of the plan's row (UPDATE Payment_plan SET next_transaction_id) and of the
\* index entry, and a statement that needs them waits
PlanLocked(s, p) == \E u \in Sessions \ {s} : session[u].pc = "inserted" /\ SessionPlan(u) = p

\* UPDATE transactions SET status = new WHERE id = i in session s: the row is locked;
\* the statement waits while another session holds the row's lock, and the trigger's WHEN
\* clause lets only a change of status through
BeginUpdate(s, i, new) ==
  /\ session[s].pc = "idle"
  /\ i \in DOMAIN transactions_trg
  /\ \A u \in Sessions \ {s} : session[u].id # i
  /\ transactions_trg[i].status # new
  /\ session' = [session EXCEPT ![s] = [pc |-> "select", id |-> i, new |-> new, v_payment_num |-> 0]]
  /\ UNCHANGED <<Payment_plan_trg, transactions_trg, lastStatement>>
  /\ UNCHANGED <<liveVars, crsVars, cardVars, chatVars>>

\* fn_generate_next_transaction in session s: SELECT COALESCE(MAX(payment_num), 0) reads
\* the committed rows
SelectMaxPaymentNum(s) ==
  /\ session[s].pc = "select"
  /\ LET v_payment_num == MaxPaymentNum(transactions_trg, SessionPlan(s))
     IN session' = [session EXCEPT ![s].v_payment_num = v_payment_num,
                                   ![s].pc = IF session[s].new = "PAID" /\ MorePaymentsDue(v_payment_num, Payment_plan_trg[SessionPlan(s)]) THEN "insert" ELSE "done"]
  /\ UNCHANGED <<Payment_plan_trg, transactions_trg, lastStatement>>
  /\ UNCHANGED <<liveVars, crsVars, cardVars, chatVars>>

\* what the statement of session s does to the committed tables, with the payment number
\* its trigger selected earlier
SessionResult(s) == GenerateNext(Payment_plan_trg, [transactions_trg EXCEPT ![session[s].id].status = session[s].new], session[s].id, session[s].v_payment_num)

\* fn_generate_next_transaction in session s: INSERT INTO transactions; it waits for a
\* session that has inserted for the same plan, and a row that breaks
\* unique_payment_num_per_plan raises and undoes the statement
InsertNext(s) ==
  /\ session[s].pc = "insert"
  /\ ~PlanLocked(s, SessionPlan(s))
  /\ IF SessionResult(s).raised
     THEN /\ session' = [session EXCEPT ![s] = IdleSession]
          /\ lastStatement' = Statement(session[s].new, SessionPlan(s), TRUE)
     ELSE /\ session' = [session EXCEPT ![s].pc = "inserted"]
          /\ UNCHANGED lastStatement
  /\ UNCHANGED <<Payment_plan_trg, transactions_trg>>
  /\ UNCHANGED <<liveVars, crsVars, cardVars, chatVars>>

\* the statement of session s ends and its transaction commits
Commit(s) ==
  /\ session[s].pc \in {"done", "inserted"}
  /\ LET r == SessionResult(s)
     IN /\ lastStatement' = Statement(session[s].new, SessionPlan(s), r.raised)
        /\ IF r.raised
           THEN UNCHANGED <<Payment_plan_trg, transactions_trg>>
           ELSE /\ Payment_plan_trg' = r.plans
                /\ transactions_trg' = r.txs
  /\ session' = [session EXCEPT ![s] = IdleSession]
  /\ UNCHANGED <<liveVars, crsVars, cardVars, chatVars>>

NextTxRace ==
  \/ \E total_due \in TotalsDue, payment_rate \in PaymentRates, num_payment \in RaceNumPayments : InsertPaymentPlan(total_due, payment_rate, num_payment) /\ Len(Payment_plan_trg) + 1 \in RacePlans /\ UNCHANGED session
  \/ \E p \in RacePlans, due_date \in PaymentRates : InsertTransaction(p, due_date) /\ (\A s \in Sessions : ~PlanLocked(s, p)) /\ UNCHANGED session
  \/ \E s \in Sessions, i \in RaceTransactionIds, new \in {"PAID", "OVERDUE"} : BeginUpdate(s, i, new)
  \/ \E s \in Sessions : SelectMaxPaymentNum(s)
  \/ \E s \in Sessions : InsertNext(s)
  \/ \E s \in Sessions : Commit(s)

\* statements of two sessions on the trigger schema, interleaved
SpecTxRace == Init /\ [][NextTxRace]_vars

\* ------------------------------------------------------ reputation score (CRS)

\* CHECK (crs_score >= 0 AND crs_score <= 100)
CrsScores == 0..100

\* scores the page computes are fractions with a power of two as denominator
\* (PENALTY_MULTIPLIER = 3/2): the model holds them multiplied by ScoreScale
ScoreScale == 2^(MaxHistory - 1)

\* the model's value of the number x
Scaled(x) == x * ScoreScale

CRS_CONSTANTS == [BASE_PENALTY |-> 10, PENALTY_MULTIPLIER |-> [num |-> 3, den |-> 2], RECOVERY_INCREMENT |-> 5, RECOVERY_BONUS |-> 10, MAX_SCORE |-> 100, MIN_SCORE |-> 0, RISK_THRESHOLDS |-> [HIGH |-> 60, MEDIUM |-> 75, LOW |-> 85]]

\* a lower clamp that lets every value through
MathMax_unclamped(a, b) == b

MathMax(a, b) == IF a >= b THEN a ELSE b

MathMin(a, b) == IF a <= b THEN a ELSE b

\* BASE_PENALTY * Math.pow(PENALTY_MULTIPLIER, consecutiveMisses - 1), scaled
calculatePenalty(consecutiveMisses) ==
  (Scaled(CRS_CONSTANTS.BASE_PENALTY) * CRS_CONSTANTS.PENALTY_MULTIPLIER.num^(consecutiveMisses - 1)) \div CRS_CONSTANTS.PENALTY_MULTIPLIER.den^(consecutiveMisses - 1)

\* RECOVERY_INCREMENT + Math.floor(monthsOnTime / 6) * RECOVERY_BONUS, scaled
calculateRecoveryBonus(monthsOnTime) ==
  LET baseRecovery == CRS_CONSTANTS.RECOVERY_INCREMENT
      bonusPeriods == monthsOnTime \div 6
  IN Scaled(baseRecovery + (bonusPeriods * CRS_CONSTANTS.RECOVERY_BONUS))

\* currentScore >= 80 ? 'low' : currentScore >= 70 ? 'medium' : 'high'
riskLevelOfScore(currentScore) == IF currentScore >= 80 THEN "low" ELSE IF currentScore >= 70 THEN "medium" ELSE "high"

\* CASE WHEN l.crs_score >= 80 THEN 'low' WHEN l.crs_score >= 70 THEN 'medium' ELSE 'high' END
risk_level_case(score) == IF score >= 80 THEN "low" ELSE IF score >= 70 THEN "medium" ELSE "high"

\* the outcomes the seed draws for a transaction: paid by the due date, paid after it,
\* or left overdue
SeedOutcomes == {"paidEarly", "paidLate", "overdue"}

\* payment_streak of the last row the seed wrote
SeedStreak == IF transaction_history = <<>> THEN 0 ELSE transaction_history[Len(transaction_history)].payment_streak

\* the row the seed writes for an outcome: a paid one lengthens the streak, late or not
SeedRow(outcome) ==
  [status |-> IF outcome = "overdue" THEN "overdue" ELSE "paid",
   onTime |-> outcome = "paidEarly",
   payment_streak |-> IF outcome = "overdue" THEN 0 ELSE SeedStreak + 1]

\* risk_level of a seeded row, from calculate_payment_consistency: 0 without a
\* completion date, 80..90 plus the streak bonus when on time, 50..80 plus the streak
\* bonus LEAST(payment_streak * 2, 10) when late, the base drawn at random
SeedRiskLevels(row) ==
  IF row.status = "overdue" THEN {"high"}
  ELSE IF row.onTime THEN {"low"}
  ELSE {"low", "medium"} \cup (IF MathMin(row.payment_streak * 2, 10) < 10 THEN {"high"} ELSE {})

\* the page and the reminder have not read the tables yet
BeforeUse == metrics = NoMetrics /\ newMessage = NoMessage /\ card = NoCard

\* UPDATE liaisons SET crs_score = v, as the seeds do before they write the
\* relationship's transactions, under the column's CHECK
UpdateCrsScore(v) ==
  /\ BeforeUse
  /\ transaction_history = <<>>
  /\ pending_transaction = NoTransaction
  /\ v \in CrsScores
  /\ crs_score' = v
  /\ UNCHANGED <<transaction_history, pending_transaction, metrics, newMessage>>
  /\ UNCHANGED <<liveVars, trgVars, cardVars, chatVars>>

\* one round of the seed's loop over the installments of the active plan
SeedTransaction(outcome) ==
  /\ BeforeUse
  /\ pending_transaction = NoTransaction
  /\ Len(transaction_history) < MaxHistory
  /\ transaction_history' = Append(transaction_history, SeedRow(outcome))
  /\ UNCHANGED <<crs_score, pending_transaction, metrics, newMessage>>
  /\ UNCHANGED <<liveVars, trgVars, cardVars, chatVars>>

\* the relationships of the accountant whose plans have rows in transactions: the one
\* the pages are opened for, and one with another client
SelectedLiaison == "L1"

ReadableLiaisons == {"L1", "L2"}

\* INSERT INTO transactions ... 'pending' for the active plan of relationship l, unless
\* it has a pending row. The seed writes one for every active plan, all with the same due
\* date; the variable holds the one a query for pending rows, ordered by due_date and
\* limited to one, returns. The table has no row level security and the queries of the
\* pages name no relationship, so that row can be of either relationship. The score of
\* the other relationship is not held: its risk_level is any of the three.
InsertPendingTransaction(l) ==
  /\ BeforeUse
  /\ pending_transaction = NoTransaction
  /\ \E risk_level \in (IF l = SelectedLiaison THEN {risk_level_case(crs_score)} ELSE {"low", "medium", "high"}) :
       pending_transaction' = [liaison |-> l, status |-> "pending", onTime |-> FALSE, payment_streak |-> 0, risk_level |-> risk_level]
  /\ UNCHANGED <<crs_score, transaction_history, metrics, newMessage>>
  /\ UNCHANGED <<liveVars, trgVars, cardVars, chatVars>>

\* predictedScore of fetchCRSData, scaled: history are the rows in due_date order
predictedScoreOf(currentScore, history, currentStreak) ==
  LET hasTransactions == Len(history) > 0
      completedTransactions == {i \in DOMAIN history : history[i].status # "pending"}
      onTimePayments == Cardinality({i \in completedTransactions : history[i].onTime})
      missedPayments == Cardinality(completedTransactions) - onTimePayments
  IN IF hasTransactions
     THEN IF missedPayments > 0
          THEN MathMax(Scaled(CRS_CONSTANTS.MIN_SCORE), Scaled(currentScore) - calculatePenalty(missedPayments))
          ELSE IF currentStreak > 0
               THEN MathMin(Scaled(CRS_CONSTANTS.MAX_SCORE), Scaled(currentScore) + calculateRecoveryBonus(currentStreak))
               ELSE Scaled(currentScore)
     ELSE Scaled(currentScore)

\* the rows fetchCRSData selects, ordered by due_date
SelectedTransactions == IF pending_transaction = NoTransaction THEN transaction_history ELSE Append(transaction_history, pending_transaction)

\* fetchCRSData of CRSAnalysisPage, run when the page mounts
fetchCRSData ==
  /\ newMessage = NoMessage
  /\ LET currentScore == IF crs_score = 0 THEN 85 ELSE crs_score
         history == SelectedTransactions
         hasTransactions == Len(history) > 0
         last == history[Len(history)]
         completedTransactions == {i \in DOMAIN history : history[i].status # "pending"}
         onTimePayments == Cardinality({i \in completedTransactions : history[i].onTime})
         currentStreak == IF hasTransactions THEN last.payment_streak ELSE 0
         riskLevels == IF hasTransactions
                       THEN IF last.status = "pending" THEN {last.risk_level} ELSE SeedRiskLevels(last)
                       ELSE {riskLevelOfScore(currentScore)}
     IN \E riskLevel \in riskLevels :
          metrics' = [totalTransactions |-> Cardinality(completedTransactions),
                      onTimePayments |-> onTimePayments,
                      currentStreak |-> currentStreak,
                      riskLevel |-> riskLevel,
                      predictedScore |-> predictedScoreOf(currentScore, history, currentStreak)]
  /\ UNCHANGED <<crs_score, transaction_history, pending_transaction, newMessage>>
  /\ UNCHANGED <<liveVars, trgVars, cardVars, chatVars>>

NextScore ==
  \/ \E v \in CrsScores : UpdateCrsScore(v)
  \/ \E outcome \in SeedOutcomes : SeedTransaction(outcome)
  \/ fetchCRSData

\* the seed of the payment history and the score page
SpecScore == Init /\ [][NextScore]_vars

\* ------------------------------------------------------------ payment reminders

\* the values Math.ceil((due_date - now) / one day) takes
DaysUntilDue == (0 - MaxDays)..MaxDays

\* ids of REMINDER_LEVELS, in the order of the array
REMINDER_LEVELS == <<"friendly", "approaching", "overdue", "urgent">>

\* a friendly tier that asks for a score of 85 only
reminderLevelOf_scoreOnly(daysUntilDue, crsScore) ==
  IF crsScore >= 85
  THEN REMINDER_LEVELS[1]
  ELSE IF daysUntilDue > 0 /\ crsScore >= 75
       THEN REMINDER_LEVELS[2]
       ELSE IF daysUntilDue > 0 - 7
            THEN REMINDER_LEVELS[3]
            ELSE REMINDER_LEVELS[4]

\* the if chain of generateAIReminder
reminderLevelOf(daysUntilDue, crsScore) ==
  IF daysUntilDue > 5 /\ crsScore >= 85
  THEN REMINDER_LEVELS[1]
  ELSE IF daysUntilDue > 0 /\ crsScore >= 75
       THEN REMINDER_LEVELS[2]
       ELSE IF daysUntilDue > 0 - 7
            THEN REMINDER_LEVELS[3]
            ELSE REMINDER_LEVELS[4]

\* the greetings generatePersonalizedMessage draws from
greetings == <<"Hi", "Hello", "Good day", "Greetings">>

\* the text generatePersonalizedMessage returns for a tier and the index Math.random has
\* drawn, for the one client, amount and due date of the model: the template and the
\* words it opens with (the urgent template opens with Dear and the full name)
generatePersonalizedMessage(level, drawn) ==
  LET greeting == greetings[drawn]
  IN IF level = "urgent" THEN <<"urgent", "Dear">> ELSE <<level, greeting>>

\* generateAIReminder of the accountant's ChatPage, daysUntilDue days before the pending
\* transaction is due: without a pending transaction it shows an error and writes nothing
generateAIReminder(daysUntilDue) ==
  /\ IF pending_transaction = NoTransaction
     THEN UNCHANGED newMessage
     ELSE LET crsScore == crs_score
              reminderLevel == reminderLevelOf(daysUntilDue, crsScore)
          IN \E drawn \in DOMAIN greetings :
               newMessage' = [level |-> reminderLevel, daysUntilDue |-> daysUntilDue, text |-> generatePersonalizedMessage(reminderLevel, drawn), transaction |-> pending_transaction]
  /\ UNCHANGED <<crs_score, transaction_history, pending_transaction, metrics>>
  /\ UNCHANGED <<liveVars, trgVars, cardVars, chatVars>>

NextReminder ==
  \/ \E v \in CrsScores : UpdateCrsScore(v)
  \/ \E l \in ReadableLiaisons : InsertPendingTransaction(l)
  \/ \E daysUntilDue \in DaysUntilDue : generateAIReminder(daysUntilDue)

\* the seed of the pending transaction and the reminder of the accountant's chat
SpecReminder == Init /\ [][NextReminder]_vars

\* ------------------------------------------------------------- suggested plans

\* the plan of the other relationship
OtherPlanForm == [totalAmount |-> 2000, numberOfPayments |-> 4, paymentPeriod |-> 30]

\* amount of the transactions of relationship l: total_due / num_payment of its plan
TransactionAmount(l) ==
  IF l = SelectedLiaison
  THEN InitialPlanForm.totalAmount \div InitialPlanForm.numberOfPayments
  ELSE OtherPlanForm.totalAmount \div OtherPlanForm.numberOfPayments

\* the columns generateSuggestedPlan uses of a row of relationship l
HistoryRow(l, row) == [liaison |-> l, status |-> row.status, onTime |-> row.onTime, amount |-> TransactionAmount(l)]

RECURSIVE Reversed(_)
Reversed(seq) == IF seq = <<>> THEN <<>> ELSE Append(Reversed(Tail(seq)), Head(seq))

\* SELECT ... FROM transactions ORDER BY created_at DESC LIMIT 10: the pending row, written
\* by the later seed, comes first; the query names no relationship
LatestTransactions ==
  (IF pending_transaction = NoTransaction THEN <<>> ELSE <<HistoryRow(pending_transaction.liaison, pending_transaction)>>)
  \o Reversed([i \in DOMAIN transaction_history |-> HistoryRow(SelectedLiaison, transaction_history[i])])

\* risk_level of paymentHistory[0]: the rows of the first seed have one created_at, so
\* any of them can come first when there is no pending row
LatestRiskLevels ==
  IF pending_transaction # NoTransaction THEN {pending_transaction.risk_level}
  ELSE IF transaction_history = <<>> THEN {"medium"}
  ELSE UNION {SeedRiskLevels(transaction_history[i]) : i \in DOMAIN transaction_history}

RECURSIVE SumAmounts(_)
SumAmounts(rows) == IF rows = <<>> THEN 0 ELSE Head(rows).amount + SumAmounts(Tail(rows))

\* a suggestion that keeps the total of the requested plan
suggestedTotalAmount_kept(newPlan, paymentHistory, riskLevel) == newPlan.totalAmount

\* totalAmount of the suggestion: Math.round((avgAmount + newPlan.totalAmount) / 2) when
\* avgAmount > 0 and the risk level is not high, with avgAmount the sum of the amounts
\* over totalPayments
suggestedTotalAmount(newPlan, paymentHistory, riskLevel) ==
  LET totalPayments == IF Len(paymentHistory) = 0 THEN 1 ELSE Len(paymentHistory)
      sum == SumAmounts(paymentHistory)
  IN IF sum > 0 /\ riskLevel # "high"
     THEN (sum + newPlan.totalAmount * totalPayments + totalPayments) \div (2 * totalPayments)
     ELSE newPlan.totalAmount

\* the plan generateSuggestedPlan computes
suggestedPlanOf(newPlan, crsScore, paymentHistory, riskLevel) ==
  LET onTimePayments == Cardinality({i \in DOMAIN paymentHistory : paymentHistory[i].onTime})
      totalPayments == IF Len(paymentHistory) = 0 THEN 1 ELSE Len(paymentHistory)
      \* paymentReliability >= x, with paymentReliability = onTimePayments / totalPayments * 100
      reliable(x) == onTimePayments * 100 >= x * totalPayments
      terms == IF crsScore >= 90 /\ reliable(95)
               THEN [numberOfPayments |-> MathMin(12, newPlan.numberOfPayments + 2), paymentPeriod |-> 90]
               ELSE IF crsScore >= 80 /\ reliable(85)
                    THEN [numberOfPayments |-> MathMin(8, newPlan.numberOfPayments + 1), paymentPeriod |-> 60]
                    ELSE IF crsScore >= 70 /\ reliable(75)
                         THEN [numberOfPayments |-> MathMin(6, newPlan.numberOfPayments), paymentPeriod |-> 45]
                         ELSE [numberOfPayments |-> MathMax(3, newPlan.numberOfPayments - 1), paymentPeriod |-> 30]
      totalAmount == suggestedTotalAmount(newPlan, paymentHistory, riskLevel)
  IN [totalAmount |-> totalAmount, numberOfPayments |-> terms.numberOfPayments, paymentPeriod |-> terms.paymentPeriod, paymentAmount |-> <<totalAmount, terms.numberOfPayments>>]

\* a PaymentPlanMessage is rendered for a proposal newPlan: useState(newPlan)
MountPaymentPlanMessage(newPlan) ==
  /\ card = NoCard
  /\ card' = [newPlan |-> newPlan, editedPlan |-> Draft(newPlan), isEditing |-> FALSE, paymentHistory |-> <<>>]
  /\ UNCHANGED <<liveVars, trgVars, crsVars, chatVars>>

\* a generateSuggestedPlan that also sends the suggestion as a counter-offer
generateSuggestedPlan_sends ==
  /\ card.newPlan # NoPlan
  /\ card' = [card EXCEPT !.isEditing = TRUE]
  /\ messages' = Append(messages, [liaison_id |-> SelectedLiaison, sender_id |-> "accountant", type |-> "payment_plan", newPlan |-> card.newPlan])
  /\ UNCHANGED <<verification_status, initiated_by, Payment_plan, transactions, currentUserId, status, handler, race>>
  /\ UNCHANGED <<trgVars, crsVars, chatVars>>

\* generateSuggestedPlan of the card: it reads liaisons and transactions and sets
\* editedPlan and isEditing
generateSuggestedPlan ==
  /\ card.newPlan # NoPlan
  /\ LET crsScore == crs_score
         paymentHistory == LatestTransactions
     IN \E riskLevel \in LatestRiskLevels :
          card' = [card EXCEPT !.editedPlan = suggestedPlanOf(card.newPlan, crsScore, paymentHistory, riskLevel),
                               !.isEditing = TRUE,
                               !.paymentHistory = paymentHistory]
  /\ UNCHANGED <<liveVars, trgVars, crsVars, chatVars>>

NextSuggestion ==
  \/ \E v \in CrsScores : UpdateCrsScore(v)
  \/ \E outcome \in SeedOutcomes : SeedTransaction(outcome) /\ Len(transaction_history) < MaxSuggestionHistory
  \/ \E l \in ReadableLiaisons : InsertPendingTransaction(l)
  \/ \E newPlan \in PlanForms : MountPaymentPlanMessage(newPlan)
  \/ generateSuggestedPlan

\* the seeds and the suggestion of a payment plan card
SpecSuggestion == Init /\ [][NextSuggestion]_vars

\* ------------------------------------------------------------------ chat view

\* what a party can type, and the file a party can share
Contents == {"hello"}
DocumentNames == {"invoice.pdf"}

\* the other relationship of the accountant
OtherLiaison == "L2"

\* the relationships a message can be sent in
ChatLiaisons == {SelectedLiaison, OtherLiaison}

\* liaisons.accountant_id = uid or liaisons.client_id = uid: the accountant is a party of
\* both relationships, the client of the selected one
IsParty(uid, liaison_id) == uid = "accountant" \/ (uid = "client" /\ liaison_id = SelectedLiaison)

\* INSERT INTO messages: id and created_at follow the order of insertion
MessageRow(liaison_id, sender_id, content, document_name) ==
  [id |-> Len(chat_messages) + 1, liaison_id |-> liaison_id, sender_id |-> sender_id, content |-> content,
   is_read |-> FALSE, created_at |-> Len(chat_messages) + 1,
   document_url |-> IF document_name = Null THEN Null ELSE "url", document_name |-> document_name]

\* the filter of the channel: liaison_id=eq.<the selected relationship>
ChannelFilter(row) == row.liaison_id = SelectedLiaison

\* a postgres_changes event reaches the open chat when its channel is joined
Broadcast(queue, eventType, row) ==
  IF messageSubscription = "joined" /\ ChannelFilter(row)
  THEN Append(queue, [eventType |-> eventType, new |-> row])
  ELSE queue

\* a policy for UPDATE that has the USING clause only
RecipientsCanUpdateReadStatus_usingOnly(uid, OLD_row, NEW_row) ==
  /\ IsParty(uid, OLD_row.liaison_id)
  /\ OLD_row.sender_id # uid

\* policy "Recipients can update read status": USING the party that did not send the row,
\* WITH CHECK every column but is_read as it was
RecipientsCanUpdateReadStatus(uid, OLD_row, NEW_row) ==
  /\ IsParty(uid, OLD_row.liaison_id)
  /\ OLD_row.sender_id # uid
  /\ OLD_row.liaison_id = NEW_row.liaison_id
  /\ OLD_row.sender_id = NEW_row.sender_id
  /\ OLD_row.content = NEW_row.content
  /\ OLD_row.document_url = NEW_row.document_url
  /\ OLD_row.document_name = NEW_row.document_name
  /\ OLD_row.created_at = NEW_row.created_at

\* handleSendMessage of either ChatPage: one INSERT of a text message
handleSendMessage(uid, liaison_id, content) ==
  /\ Len(chat_messages) < MaxChatMessages
  /\ IsParty(uid, liaison_id)
  /\ LET row == MessageRow(liaison_id, uid, content, Null)
     IN /\ chat_messages' = Append(chat_messages, row)
        /\ payloads' = Broadcast(payloads, "INSERT", row)
        /\ Len(payloads') <= MaxPayloads
  /\ UNCHANGED <<viewMessages, chatUser, fetchData, messageSubscription>>
  /\ UNCHANGED <<liveVars, trgVars, crsVars, cardVars>>

\* handleFileUpload of either ChatPage: one INSERT of a message with a document
handleFileUpload(uid, liaison_id, document_name) ==
  /\ Len(chat_messages) < MaxChatMessages
  /\ IsParty(uid, liaison_id)
  /\ LET row == MessageRow(liaison_id, uid, "Shared document", document_name)
     IN /\ chat_messages' = Append(chat_messages, row)
        /\ payloads' = Broadcast(payloads, "INSERT", row)
        /\ Len(payloads') <= MaxPayloads
  /\ UNCHANGED <<viewMessages, chatUser, fetchData, messageSubscription>>
  /\ UNCHANGED <<liveVars, trgVars, crsVars, cardVars>>

\* an UPDATE of row id that party uid sends to the store: the policy decides
UpdateMessage(uid, id, NEW_row) ==
  /\ id \in DOMAIN chat_messages
  /\ NEW_row.id = id
  /\ RecipientsCanUpdateReadStatus(uid, chat_messages[id], NEW_row)
  /\ chat_messages' = [chat_messages EXCEPT ![id] = NEW_row]
  /\ payloads' = Broadcast(payloads, "UPDATE", NEW_row)
  /\ Len(payloads') <= MaxPayloads
  /\ UNCHANGED <<viewMessages, chatUser, fetchData, messageSubscription>>
  /\ UNCHANGED <<liveVars, trgVars, crsVars, cardVars>>

\* the effect on the selected relationship: fetchMessages is called and the channel subscribes
SelectChat(uid) ==
  /\ chatUser = Null
  /\ chatUser' = uid
  /\ fetchData' = [state |-> "requested", data |-> <<>>]
  /\ messageSubscription' = "joining"
  /\ UNCHANGED <<chat_messages, viewMessages, payloads>>
  /\ UNCHANGED <<liveVars, trgVars, crsVars, cardVars>>

\* formattedMessages of a row
formattedMessage(row) == [id |-> row.id, senderId |-> row.sender_id, isRead |-> row.is_read]

RECURSIVE SelectMessages(_, _)
\* SELECT * FROM messages WHERE liaison_id = ... ORDER BY created_at
SelectMessages(rows, liaisonId) ==
  IF rows = <<>> THEN <<>>
  ELSE IF Head(rows).liaison_id = liaisonId
       THEN <<Head(rows)>> \o SelectMessages(Tail(rows), liaisonId)
       ELSE SelectMessages(Tail(rows), liaisonId)

\* fetchMessages: the store runs the query
fetchMessagesSelect ==
  /\ fetchData.state = "requested"
  /\ fetchData' = [state |-> "selected", data |-> SelectMessages(chat_messages, SelectedLiaison)]
  /\ UNCHANGED <<chat_messages, viewMessages, chatUser, messageSubscription, payloads>>
  /\ UNCHANGED <<liveVars, trgVars, crsVars, cardVars>>

\* fetchMessages: the query resolves and setMessages(formattedMessages) replaces the list
fetchMessages ==
  /\ fetchData.state = "selected"
  /\ viewMessages' = [i \in DOMAIN fetchData.data |-> formattedMessage(fetchData.data[i])]
  /\ fetchData' = [state |-> "done", data |-> <<>>]
  /\ UNCHANGED <<chat_messages, chatUser, messageSubscription, payloads>>
  /\ UNCHANGED <<liveVars, trgVars, crsVars, cardVars>>

\* .subscribe(): the realtime server has joined the channel
Subscribed ==
  /\ messageSubscription = "joining"
  /\ messageSubscription' = "joined"
  /\ UNCHANGED <<chat_messages, viewMessages, chatUser, fetchData, payloads>>
  /\ UNCHANGED <<liveVars, trgVars, crsVars, cardVars>>

\* the callback of the channel on the next payload
onPayload ==
  /\ payloads # <<>>
  /\ LET payload == Head(payloads)
     IN viewMessages' =
          IF payload.eventType = "INSERT"
          THEN Append(viewMessages, formattedMessage(payload.new))
          ELSE [i \in DOMAIN viewMessages |->
                  IF viewMessages[i].id = payload.new.id
                  THEN [viewMessages[i] EXCEPT !.isRead = payload.new.is_read]
                  ELSE viewMessages[i]]
  /\ payloads' = Tail(payloads)
  /\ UNCHANGED <<chat_messages, chatUser, fetchData, messageSubscription>>
  /\ UNCHANGED <<liveVars, trgVars, crsVars, cardVars>>

\* .update({ is_read: true }) of a row
markRead(row) == [row EXCEPT !.is_read = TRUE]

\* updateMessageStatus of the ChatMessage at position i of the list, and the handleMessageRead
\* it calls: two UPDATEs of is_read, then the list marks the message read
updateMessageStatus(i) ==
  /\ i \in DOMAIN viewMessages
  /\ chatUser # Null
  /\ ~viewMessages[i].isRead
  /\ viewMessages[i].senderId # chatUser
  /\ LET id == viewMessages[i].id
         OLD_row == chat_messages[id]
         NEW_row == markRead(OLD_row)
     IN /\ RecipientsCanUpdateReadStatus(chatUser, OLD_row, NEW_row)
        /\ chat_messages' = [chat_messages EXCEPT ![id] = NEW_row]
        /\ payloads' = Broadcast(Broadcast(payloads, "UPDATE", NEW_row), "UPDATE", NEW_row)
        /\ Len(payloads') <= MaxPayloads
        /\ viewMessages' = [j \in DOMAIN viewMessages |->
                              IF viewMessages[j].id = id THEN [viewMessages[j] EXCEPT !.isRead = TRUE] ELSE viewMessages[j]]
  /\ UNCHANGED <<chatUser, fetchData, messageSubscription>>
  /\ UNCHANGED <<liveVars, trgVars, crsVars, cardVars>>

\* the cleanup of the effect: messageSubscription.unsubscribe(), and the page is left
unsubscribe ==
  /\ chatUser # Null
  /\ fetchData.state = "done"
  /\ chatUser' = Null
  /\ messageSubscription' = "closed"
  /\ fetchData' = NoFetch
  /\ payloads' = <<>>
  /\ viewMessages' = <<>>
  /\ UNCHANGED chat_messages
  /\ UNCHANGED <<liveVars, trgVars, crsVars, cardVars>>

NextChat ==
  \/ \E uid \in Users, l \in ChatLiaisons, content \in Contents : handleSendMessage(uid, l, content)
  \/ \E uid \in Users, d \in DocumentNames : handleFileUpload(uid, SelectedLiaison, d)
  \/ \E uid \in Users, id \in 1..MaxChatMessages, r \in BOOLEAN, c \in Contents \cup {"edited"}, t \in 0..MaxChatMessages :
       /\ id \in DOMAIN chat_messages
       /\ UpdateMessage(uid, id, [chat_messages[id] EXCEPT !.is_read = r, !.content = c, !.created_at = t])
  \/ \E uid \in Users : SelectChat(uid)
  \/ fetchMessagesSelect
  \/ fetchMessages
  \/ Subscribed
  \/ onPayload
  \/ \E i \in 1..(2 * MaxChatMessages) : updateMessageStatus(i)
  \/ unsubscribe

\* the chat of a relationship: its stored messages and the list one open page shows
SpecChat == Init /\ [][NextChat]_vars

\* ---------------------------------------------- resolutions and the stored score

\* the statements on the trigger schema, and the score page loading
NextResolution ==
  \/ \E total_due \in TotalsDue, payment_rate \in PaymentRates, num_payment \in NumPayments : InsertPaymentPlan(total_due, payment_rate, num_payment) /\ UNCHANGED session
  \/ \E p \in 1..MaxTriggerPlans, due_date \in DueDates : InsertTransaction(p, due_date) /\ UNCHANGED session
  \/ \E i \in TransactionIds, new \in {"PAID", "OVERDUE", "RENEGO"} : UpdateTransactionStatus(i, new) /\ UNCHANGED session
  \/ \E p \in 1..MaxTriggerPlans : CompletePlan(p) /\ UNCHANGED session
  \/ fetchCRSData

\* the page runs fetchCRSData when it mounts (useEffect), so a mounted page does get
\* its metrics; nothing schedules the statements
SpecResolution == Init /\ [][NextResolution]_vars /\ WF_vars(fetchCRSData)

\* ------------------------------------------------------------------ claims

\* C1: in every reachable state every liaison has at most one plan with status active,
\* whatever the interleaving of onboarding, connection-accept and negotiation accept.
C1_SingleActivePlan == \A l \in Liaisons : Cardinality({i \in DOMAIN Payment_plan : Payment_plan[i].liaison_id = l /\ Payment_plan[i].status = "active"}) <= 1

\* C1 witness: an accept has superseded a plan (one plan cancelled, another active).
C1_Witness == \E i, j \in DOMAIN Payment_plan : Payment_plan[i].status = "cancelled" /\ Payment_plan[j].status = "active"

\* C2 (as claimed): when a handleAccept run ends in failure it has changed nothing: it
\* has cancelled no active plan and has inserted no plan.
C2_FailedAcceptChangesNothing == [][\A t \in Tabs : (handler[t].op = "accept" /\ handler'[t].pc = "idle" /\ messages' = messages) => (~handler[t].cancelled /\ handler[t].newPaymentPlan = 0)]_vars

TakesEffect(t, m) ==
  \/ /\ handler[t].op = "accept"
     /\ handler[t].messageId = m
     /\ (Payment_plan' # Payment_plan \/ messages' # messages)
  \/ /\ Idle(t) /\ handler'[t] = handler[t]
     /\ status[t][m] = "pending"
     /\ Len(messages') = Len(messages) + 1
     /\ messages'[Len(messages')].type \in {"rejection", "payment_plan_request"}
     /\ messages'[Len(messages')].sender_id = TabUser(t)
     /\ (messages'[Len(messages')].type = "rejection" => status'[t][m] = "rejected")
     /\ (messages'[Len(messages')].type = "payment_plan_request" => status' = status)

\* C4 (as claimed): accept, reject and counter of a request write to the store only when
\* performed by a user other than the request's sender.
C4_SenderNeverActs == [][\A t \in Tabs, m \in DOMAIN messages : (messages[m].type = "payment_plan_request" /\ TabUser(t) = messages[m].sender_id) => ~TakesEffect(t, m)]_vars

\* the obligations of plan p in the live table transactions
ObligationsOf(txs, p) == {x \in txs : x.payment_plan_id = p}

\* C5 (as claimed): when a handleAccept run ends successfully, the plan it inserted has
\* exactly one obligation: sequence 1, amount total/n, pending, due in one interval.
C5_AcceptCreatesFirstObligation ==
  [][\A t \in Tabs : (handler[t].op = "accept" /\ handler[t].pc = "message" /\ messages' # messages) =>
        LET p == handler[t].newPaymentPlan
            own == ObligationsOf(transactions', p)
        IN /\ Cardinality(own) = 1
           /\ \A x \in own : /\ x.payment_number = 1
                             /\ x.status = "pending"
                             /\ x.amount * Payment_plan[p].num_payment = Payment_plan[p].total_due
                             /\ x.due_in_days = Payment_plan[p].payment_rate]_vars

\* the status changes the life cycle allows
LifecycleSteps == {<<"pending", "active">>, <<"pending", "rejected">>, <<"active", "completed">>, <<"active", "cancelled">>}

\* every plan row keeps its status or changes it along the life cycle
StatusFollowsLifecycle == \A i \in DOMAIN Payment_plan : Payment_plan'[i].status = Payment_plan[i].status \/ <<Payment_plan[i].status, Payment_plan'[i].status>> \in LifecycleSteps

\* C6 (as claimed): every plan is created pending and its status changes only along the
\* life cycle; completed, rejected and cancelled are final.
C6_CreatedPendingThenLifecycle == [][StatusFollowsLifecycle /\ \A i \in DOMAIN Payment_plan' \ DOMAIN Payment_plan : Payment_plan'[i].status = "pending"]_vars

\* C6 (amended): a plan is created pending (onboarding) or already active (negotiation
\* accept); afterwards its status changes only along the life cycle, and completed,
\* rejected and cancelled are final.
C6_CreatedThenLifecycle == [][StatusFollowsLifecycle /\ \A i \in DOMAIN Payment_plan' \ DOMAIN Payment_plan : Payment_plan'[i].status \in {"pending", "active"}]_vars

\* C6 witness: an accept has cancelled the active plan and inserted its own, active.
C6_Witness == \E t \in Tabs : handler[t].pc = "message" /\ handler[t].cancelled /\ Payment_plan[handler[t].newPaymentPlan].status = "active"

\* C7 (as claimed): no payment_plan_request message carries a total <= 0 or an
\* installment count < 1: such a proposal is refused before any message is written.
C7_InvalidProposalRefused == \A m \in DOMAIN messages : messages[m].type = "payment_plan_request" => (messages[m].newPlan.totalAmount > 0 /\ messages[m].newPlan.numberOfPayments >= 1)

\* C8 (as claimed): a request leaves pending in a view only by that view's accept or
\* reject, and a request that was accepted or rejected never shows pending again.
C8_DecisionIsFinal ==
  [][\A t \in Tabs, m \in 1..MaxMessages :
        /\ (status[t][m] # "pending" => status'[t][m] = status[t][m])
        /\ (status[t][m] = "pending" /\ status'[t][m] # "pending" => TakesEffect(t, m))]_vars

\* a step in which tab t rejects request m
Rejects(t, m) == status[t][m] = "pending" /\ status'[t][m] = "rejected"

C10_CompletionGuard ==
  (lastStatement.op = "complete" /\ ~lastStatement.wasCompleted) =>
     LET outstanding == \E i \in DOMAIN transactions_trg : transactions_trg[i].payment_plan = lastStatement.plan /\ transactions_trg[i].status \in {"PENDING", "OVERDUE"}
     IN /\ lastStatement.raised = outstanding
        /\ Payment_plan_trg[lastStatement.plan].completed = ~outstanding

\* C10 witness: a completion was refused because an obligation of the plan is OVERDUE.
C10_Witness == lastStatement.op = "complete" /\ lastStatement.raised /\ \E i \in TransactionsOf(transactions_trg, lastStatement.plan) : transactions_trg[i].status = "OVERDUE"

\* C11 (as claimed): when the status of an obligation with sequence s becomes PAID and
\* s < n, exactly one obligation is created: sequence s+1, PENDING, amount T/n, due d days
\* after the paid one; when s = n none is created.
C11_PaidCreatesSuccessor ==
  [][\A i \in DOMAIN transactions_trg : (transactions_trg[i].status # "PAID" /\ transactions_trg'[i].status = "PAID") =>
        LET paid == transactions_trg[i]
            plan == Payment_plan_trg[paid.payment_plan]
            k == Len(transactions_trg)
        IN IF paid.payment_num < plan.num_payment
           THEN /\ Len(transactions_trg') = k + 1
                /\ transactions_trg'[k + 1].payment_plan = paid.payment_plan
                /\ transactions_trg'[k + 1].payment_num = paid.payment_num + 1
                /\ transactions_trg'[k + 1].status = "PENDING"
                /\ transactions_trg'[k + 1].amount * plan.num_payment = plan.total_due
                /\ transactions_trg'[k + 1].due_date = paid.due_date + plan.payment_rate
           ELSE Len(transactions_trg') = k]_vars

\* C11 (amended): when the status of an obligation becomes PAID and m, the highest
\* sequence number among the plan's obligations, is < n, exactly one obligation is
\* created: sequence m+1, PENDING, amount T/n, due d days after the paid one; when m = n
\* none is created. For an obligation paid in order m = s.
C11_PaidCreatesAfterHighest ==
  [][\A i \in DOMAIN transactions_trg : (transactions_trg[i].status # "PAID" /\ transactions_trg'[i].status = "PAID") =>
        LET paid == transactions_trg[i]
            plan == Payment_plan_trg[paid.payment_plan]
            k == Len(transactions_trg)
            nums == {transactions_trg[j].payment_num : j \in {j \in DOMAIN transactions_trg : transactions_trg[j].payment_plan = paid.payment_plan}}
            m == CHOOSE x \in nums : \A y \in nums : y <= x
        IN IF m < plan.num_payment
           THEN /\ Len(transactions_trg') = k + 1
                /\ transactions_trg'[k + 1].payment_plan = paid.payment_plan
                /\ transactions_trg'[k + 1].payment_num = m + 1
                /\ transactions_trg'[k + 1].status = "PENDING"
                /\ transactions_trg'[k + 1].amount * plan.num_payment = plan.total_due
                /\ transactions_trg'[k + 1].due_date = paid.due_date + plan.payment_rate
                /\ \A j \in 1..k : j # i => transactions_trg'[j] = transactions_trg[j]
           ELSE /\ Len(transactions_trg') = k
                /\ \A j \in 1..k : j # i => transactions_trg'[j] = transactions_trg[j]]_vars

\* C11 witness: a payment of obligation 1 has created obligation 2, and a payment of
\* obligation 2, the last of its plan, has created none.
C11_Witness ==
  /\ lastStatement.op = "PAID" /\ ~lastStatement.raised
  /\ \E i, j \in DOMAIN transactions_trg :
        /\ transactions_trg[i].payment_plan = lastStatement.plan /\ transactions_trg[i].payment_num = 1 /\ transactions_trg[i].status = "PAID"
        /\ transactions_trg[j].payment_plan = lastStatement.plan /\ transactions_trg[j].payment_num = 2 /\ transactions_trg[j].status = "PAID"

\* C12 (as claimed): a plan never has two obligations PENDING at once, and its
\* next_transaction_id, once set, designates the most recently created obligation of the
\* plan that is PENDING or OVERDUE, never a PAID or RENEGO one.
C12_OneNextObligation ==
  \A p \in DOMAIN Payment_plan_trg :
     LET own == {i \in DOMAIN transactions_trg : transactions_trg[i].payment_plan = p}
         unresolved == {i \in own : transactions_trg[i].status \in {"PENDING", "OVERDUE"}}
         next == Payment_plan_trg[p].next_transaction_id
     IN /\ Cardinality({i \in own : transactions_trg[i].status = "PENDING"}) <= 1
        /\ next # 0 => (next \in unresolved /\ \A j \in unresolved : j <= next)

C14_PaidAndSuccessorAtomic ==
  \A p \in DOMAIN Payment_plan_trg :
     LET own == {i \in DOMAIN transactions_trg : transactions_trg[i].payment_plan = p}
     IN /\ \A i, j \in own : transactions_trg[i].payment_num = transactions_trg[j].payment_num => i = j
        /\ \A i \in own : (\A j \in own : transactions_trg[j].payment_num <= transactions_trg[i].payment_num) =>
              ~(transactions_trg[i].status = "PAID" /\ transactions_trg[i].payment_num < Payment_plan_trg[p].num_payment)

\* C14 witness: of two payments of obligations of one plan that both selected the same
\* highest number, one has committed its successor and the other has been refused.
C14_Witness ==
  /\ lastStatement.op = "PAID" /\ lastStatement.raised
  /\ \E i \in DOMAIN transactions_trg : transactions_trg[i].payment_plan = lastStatement.plan /\ transactions_trg[i].payment_num = 3

\* C15: from any stored score in 0..100 and any payment history, the score the page
\* computes with one update (a penalty for the misses or a bonus for the streak) lies in
\* 0..100, and so does the stored score; a chain of such updates therefore stays in range.
C15_ScoreWithinBounds ==
  /\ crs_score >= 0 /\ crs_score <= 100
  /\ metrics # NoMetrics => (metrics.predictedScore >= Scaled(0) /\ metrics.predictedScore <= Scaled(100))

\* C15 witness: the page has computed a score from a history whose penalty is larger
\* than the stored score, and the result is 0.
C15_Witness ==
  /\ metrics # NoMetrics
  /\ metrics.predictedScore = Scaled(0)
  /\ crs_score > 0
  /\ transaction_history # <<>>

\* the payment history holds misses only
OnlyMisses == \A i \in DOMAIN transaction_history : ~transaction_history[i].onTime

\* the score after the first k misses in a row, each lowering it by 10 * 1.5^(k-1), not below 0
RECURSIVE ScoreAfterMisses(_, _)
ScoreAfterMisses(score, k) ==
  IF k = 0 THEN Scaled(score)
  ELSE LET before == ScoreAfterMisses(score, k - 1)
           penalty == (Scaled(10) * 3^(k - 1)) \div 2^(k - 1)
       IN IF before - penalty < 0 THEN 0 ELSE before - penalty

\* C16: after k consecutive missed obligations the score the page computes is the stored
\* score lowered by 10 for the first miss, 15 for the second, ..., 10 * 1.5^(k-1) for the
\* k-th, never below 0 (from 90: 80 after one miss, 65 after two).
C16_ConsecutiveMissPenalty ==
  (metrics # NoMetrics /\ transaction_history # <<>> /\ OnlyMisses) =>
     metrics.predictedScore = ScoreAfterMisses(crs_score, Len(transaction_history))

\* C17: when the latest payment was on time or early, the score the page computes is the
\* stored score raised by 5 + 10 * floor(streak / 6), at most 100, whatever the earlier
\* history holds (85 with a streak of 1 becomes 90).
C17_OnTimePaymentRaisesScore ==
  (metrics # NoMetrics /\ transaction_history # <<>> /\ transaction_history[Len(transaction_history)].onTime) =>
     LET streak == transaction_history[Len(transaction_history)].payment_streak
         raised == Scaled(crs_score) + Scaled(5 + 10 * (streak \div 6))
     IN metrics.predictedScore = IF raised > Scaled(100) THEN Scaled(100) ELSE raised

\* C19: the risk tier computed from a score is low exactly from 85 up, medium exactly
\* from 70 to 84, and high exactly below 70.
C19_RiskTierThresholds ==
  (metrics # NoMetrics /\ transaction_history = <<>>) =>
     /\ metrics.riskLevel = "low" <=> crs_score >= 85
     /\ metrics.riskLevel = "medium" <=> (70 <= crs_score /\ crs_score < 85)
     /\ metrics.riskLevel = "high" <=> crs_score < 70

SomeObligationResolved == \E i \in DOMAIN transactions_trg : transactions_trg[i].status \in {"PAID", "OVERDUE"}

\* C18: once an obligation is resolved (paid or overdue), the stored score
\* liaisons.crs_score is eventually updated with the outcome: from the initial 85 either
\* outcome gives another value, so the stored score eventually differs from 85.
C18_ResolutionUpdatesScore == SomeObligationResolved ~> (crs_score # DefaultCrsScore)

\* C24 (as claimed): a statement that sets an obligation to RENEGO leaves its plan
\* completed, whatever the status of the plan's other obligations.
C24_RenegoCompletesPlan ==
  [][\A i \in TransactionIds :
       (i \in DOMAIN transactions_trg /\ transactions_trg[i].status # "RENEGO" /\ UpdateTransactionStatus(i, "RENEGO")) =>
          Payment_plan_trg'[transactions_trg[i].payment_plan].completed]_vars

\* C24 (amended): a statement that sets an obligation to RENEGO marks its plan completed
\* in the same step when the plan is already completed or none of its other obligations is
\* PENDING or OVERDUE; otherwise the exception of the completion guard undoes the
\* statement: the obligation keeps its status and the plan stays not completed.
C24_RenegoCompletesUnlessOutstanding ==
  [][\A i \in TransactionIds :
       (i \in DOMAIN transactions_trg /\ transactions_trg[i].status # "RENEGO" /\ UpdateTransactionStatus(i, "RENEGO")) =>
          LET p == transactions_trg[i].payment_plan
              othersOutstanding == \E j \in DOMAIN transactions_trg : j # i /\ transactions_trg[j].payment_plan = p /\ transactions_trg[j].status \in {"PENDING", "OVERDUE"}
          IN IF othersOutstanding /\ ~Payment_plan_trg[p].completed
             THEN /\ lastStatement'.raised
                  /\ transactions_trg' = transactions_trg
                  /\ Payment_plan_trg' = Payment_plan_trg
             ELSE /\ ~lastStatement'.raised
                  /\ transactions_trg' = [transactions_trg EXCEPT ![i].status = "RENEGO"]
                  /\ Payment_plan_trg' = [Payment_plan_trg EXCEPT ![p].completed = TRUE]]_vars

\* C24 witness: a renegotiation was refused while another obligation of the plan is
\* PENDING, and the plan is not completed.
C24_Witness ==
  /\ lastStatement.op = "RENEGO" /\ lastStatement.raised
  /\ ~Payment_plan_trg[lastStatement.plan].completed
  /\ \E i, j \in TransactionsOf(transactions_trg, lastStatement.plan) : i # j /\ transactions_trg[j].status = "PENDING" /\ transactions_trg[i].status = "PAID"

\* C25: in every state, a plan marked completed has no obligation that is PENDING or
\* OVERDUE.
C25_CompletedPlanHasNoOutstanding ==
  \A p \in DOMAIN Payment_plan_trg :
     Payment_plan_trg[p].completed => ~\E i \in DOMAIN transactions_trg : transactions_trg[i].payment_plan = p /\ transactions_trg[i].status \in {"PENDING", "OVERDUE"}

\* C21: a reminder generated again with the same recipient, amount, due date, days until
\* due and score has the same tier and the same notice text as the one before.
C21_ReminderIsPure ==
  [][(newMessage # NoMessage /\ newMessage' # NoMessage /\ newMessage'.daysUntilDue = newMessage.daysUntilDue
        /\ crs_score' = crs_score /\ pending_transaction' = pending_transaction) =>
       (newMessage'.level = newMessage.level /\ newMessage'.text = newMessage.text)]_vars

\* C28: the tiers overdue and urgent are selected only when the due date is today or in
\* the past (daysUntilDue <= 0).
C28_OverdueTiersOnlyWhenDue ==
  (newMessage # NoMessage /\ newMessage.level \in {"overdue", "urgent"}) => newMessage.daysUntilDue <= 0

\* C22: generating a suggestion creates no message and creates or changes no plan: the
\* stored tables stay as they are and only the card's draft changes.
C22_SuggestionWritesNothing ==
  [][card'.isEditing /\ card' # card =>
       /\ messages' = messages
       /\ Payment_plan' = Payment_plan
       /\ transactions' = transactions
       /\ verification_status' = verification_status
       /\ crs_score' = crs_score
       /\ transaction_history' = transaction_history
       /\ pending_transaction' = pending_transaction
       /\ card'.newPlan = card.newPlan]_vars

\* C22 witness: a suggestion was generated from a history and fills the draft, and no
\* message and no plan is stored.
C22_Witness ==
  /\ card.isEditing /\ card.paymentHistory # <<>>
  /\ card.editedPlan # Draft(card.newPlan)
  /\ messages = <<>> /\ Payment_plan = <<>>

\* C29: the obligation a reminder is generated from, and every transaction a suggestion
\* is generated from, belongs to the relationship the reminder or suggestion is for.
C29_SameRelationship ==
  /\ newMessage # NoMessage => newMessage.transaction.liaison = SelectedLiaison
  /\ \A i \in DOMAIN card.paymentHistory : card.paymentHistory[i].liaison = SelectedLiaison

\* C30: the suggested plan has the total amount of the requested plan.
C30_SuggestionKeepsTotal == card.isEditing => card.editedPlan.totalAmount = card.newPlan.totalAmount

\* C23: a stored message keeps its content, sender, relationship, attachment and creation
\* time in every step; only is_read can differ.
C23_MessageImmutable ==
  [][\A id \in DOMAIN chat_messages :
       /\ id \in DOMAIN chat_messages'
       /\ chat_messages'[id].content = chat_messages[id].content
       /\ chat_messages'[id].sender_id = chat_messages[id].sender_id
       /\ chat_messages'[id].liaison_id = chat_messages[id].liaison_id
       /\ chat_messages'[id].document_url = chat_messages[id].document_url
       /\ chat_messages'[id].document_name = chat_messages[id].document_name
       /\ chat_messages'[id].created_at = chat_messages[id].created_at]_vars

\* C23 witness: a message with a document is stored, its recipient has marked it read and
\* the list of the recipient shows it read.
C23_Witness ==
  \E id \in DOMAIN chat_messages :
    /\ chat_messages[id].is_read
    /\ chat_messages[id].document_name # Null
    /\ chatUser # Null /\ chatUser # chat_messages[id].sender_id
    /\ \E i \in DOMAIN viewMessages : viewMessages[i].id = id /\ viewMessages[i].isRead

\* the ids of a sequence of rows or list entries, in order
IdsOf(seq) == [i \in DOMAIN seq |-> seq[i].id]

\* C27: once the fetch has resolved, the channel is joined and no event is in flight, the
\* list shows the stored messages of the relationship, each once, in creation order.
C27_ViewShowsStoredMessages ==
  (fetchData.state = "done" /\ messageSubscription = "joined" /\ payloads = <<>>)
    => IdsOf(viewMessages) = IdsOf(SelectMessages(chat_messages, SelectedLiaison))

\* C26: while the relationship is pending and no handler is in flight, the liaison has no
\* active plan.
C26_PendingRelationshipHasNoActivePlan ==
  (verification_status = "pending" /\ \A t \in Tabs : Idle(t))
    => \A i \in DOMAIN Payment_plan : Payment_plan[i].status # "active"

====
